---- MODULE Spec2Model ----
(***************************************************************************)
(* The MEA shipment checklist (src/app.py): the rule store, the resolver   *)
(* (master_dataframe, filter_rows), the editable working view, the status  *)
(* calculation and the font set-up of the PDF class, as a state machine    *)
(* whose steps are the script runs that Streamlit starts on each user      *)
(* interaction.                                                            *)
(***************************************************************************)
EXTENDS Integers, Sequences, FiniteSets, TLC

(***************************************************************************)
(* Rule store: the literal data of the source.                             *)
(***************************************************************************)

(* src/app.py:40-43 *)
MIDDLE_EAST ==
  <<
      "Bahrain", "Cyprus", "Iran", "Iraq",
      "Israel", "Jordan", "Kuwait", "Lebanon",
      "Oman", "Palestine", "Qatar", "Saudi Arabia",
      "Syria", "Turkey", "United Arab Emirates", "Yemen",
      "Egypt"
  >>

(* src/app.py:44-52 *)
AFRICA ==
  <<
      "Algeria", "Angola", "Benin", "Botswana",
      "Burkina Faso", "Burundi", "Cabo Verde", "Cameroon",
      "Central African Republic", "Chad", "Comoros", "Congo (Republic)",
      "Congo (DRC)", "Djibouti", "Equatorial Guinea", "Eritrea",
      "Eswatini", "Ethiopia", "Gabon", "Gambia",
      "Ghana", "Guinea", "Guinea-Bissau", "Cote d'Ivoire",
      "Kenya", "Lesotho", "Liberia", "Libya",
      "Madagascar", "Malawi", "Mali", "Mauritania",
      "Mauritius", "Morocco", "Mozambique", "Namibia",
      "Niger", "Nigeria", "Rwanda", "Sao Tome and Principe",
      "Senegal", "Seychelles", "Sierra Leone", "Somalia",
      "South Africa", "South Sudan", "Sudan", "Tanzania",
      "Togo", "Tunisia", "Uganda", "Zambia",
      "Zimbabwe"
  >>

(* The Unicode code points of each country name: Python compares strings by
   code point, and sorted() at src/app.py:53 orders the names that way.  The
   display name of "Cote d'Ivoire" is written with U+00F4 and U+2019 in the
   source; the model keeps an ASCII spelling and the source's code points. *)
CodePoints(name) ==
  CASE name = "Algeria" -> <<65, 108, 103, 101, 114, 105, 97>>
    [] name = "Angola" -> <<65, 110, 103, 111, 108, 97>>
    [] name = "Bahrain" -> <<66, 97, 104, 114, 97, 105, 110>>
    [] name = "Benin" -> <<66, 101, 110, 105, 110>>
    [] name = "Botswana" -> <<66, 111, 116, 115, 119, 97, 110, 97>>
    [] name = "Burkina Faso" -> <<66, 117, 114, 107, 105, 110, 97, 32, 70, 97, 115, 111>>
    [] name = "Burundi" -> <<66, 117, 114, 117, 110, 100, 105>>
    [] name = "Cabo Verde" -> <<67, 97, 98, 111, 32, 86, 101, 114, 100, 101>>
    [] name = "Cameroon" -> <<67, 97, 109, 101, 114, 111, 111, 110>>
    [] name = "Central African Republic" -> <<67, 101, 110, 116, 114, 97, 108, 32, 65, 102, 114, 105, 99, 97, 110, 32, 82, 101, 112, 117, 98, 108, 105, 99>>
    [] name = "Chad" -> <<67, 104, 97, 100>>
    [] name = "Comoros" -> <<67, 111, 109, 111, 114, 111, 115>>
    [] name = "Congo (DRC)" -> <<67, 111, 110, 103, 111, 32, 40, 68, 82, 67, 41>>
    [] name = "Congo (Republic)" -> <<67, 111, 110, 103, 111, 32, 40, 82, 101, 112, 117, 98, 108, 105, 99, 41>>
    [] name = "Cyprus" -> <<67, 121, 112, 114, 117, 115>>
    [] name = "Cote d'Ivoire" -> <<67, 244, 116, 101, 32, 100, 8217, 73, 118, 111, 105, 114, 101>>
    [] name = "Djibouti" -> <<68, 106, 105, 98, 111, 117, 116, 105>>
    [] name = "Egypt" -> <<69, 103, 121, 112, 116>>
    [] name = "Equatorial Guinea" -> <<69, 113, 117, 97, 116, 111, 114, 105, 97, 108, 32, 71, 117, 105, 110, 101, 97>>
    [] name = "Eritrea" -> <<69, 114, 105, 116, 114, 101, 97>>
    [] name = "Eswatini" -> <<69, 115, 119, 97, 116, 105, 110, 105>>
    [] name = "Ethiopia" -> <<69, 116, 104, 105, 111, 112, 105, 97>>
    [] name = "Gabon" -> <<71, 97, 98, 111, 110>>
    [] name = "Gambia" -> <<71, 97, 109, 98, 105, 97>>
    [] name = "Ghana" -> <<71, 104, 97, 110, 97>>
    [] name = "Guinea" -> <<71, 117, 105, 110, 101, 97>>
    [] name = "Guinea-Bissau" -> <<71, 117, 105, 110, 101, 97, 45, 66, 105, 115, 115, 97, 117>>
    [] name = "Iran" -> <<73, 114, 97, 110>>
    [] name = "Iraq" -> <<73, 114, 97, 113>>
    [] name = "Israel" -> <<73, 115, 114, 97, 101, 108>>
    [] name = "Jordan" -> <<74, 111, 114, 100, 97, 110>>
    [] name = "Kenya" -> <<75, 101, 110, 121, 97>>
    [] name = "Kuwait" -> <<75, 117, 119, 97, 105, 116>>
    [] name = "Lebanon" -> <<76, 101, 98, 97, 110, 111, 110>>
    [] name = "Lesotho" -> <<76, 101, 115, 111, 116, 104, 111>>
    [] name = "Liberia" -> <<76, 105, 98, 101, 114, 105, 97>>
    [] name = "Libya" -> <<76, 105, 98, 121, 97>>
    [] name = "Madagascar" -> <<77, 97, 100, 97, 103, 97, 115, 99, 97, 114>>
    [] name = "Malawi" -> <<77, 97, 108, 97, 119, 105>>
    [] name = "Mali" -> <<77, 97, 108, 105>>
    [] name = "Mauritania" -> <<77, 97, 117, 114, 105, 116, 97, 110, 105, 97>>
    [] name = "Mauritius" -> <<77, 97, 117, 114, 105, 116, 105, 117, 115>>
    [] name = "Morocco" -> <<77, 111, 114, 111, 99, 99, 111>>
    [] name = "Mozambique" -> <<77, 111, 122, 97, 109, 98, 105, 113, 117, 101>>
    [] name = "Namibia" -> <<78, 97, 109, 105, 98, 105, 97>>
    [] name = "Niger" -> <<78, 105, 103, 101, 114>>
    [] name = "Nigeria" -> <<78, 105, 103, 101, 114, 105, 97>>
    [] name = "Oman" -> <<79, 109, 97, 110>>
    [] name = "Palestine" -> <<80, 97, 108, 101, 115, 116, 105, 110, 101>>
    [] name = "Qatar" -> <<81, 97, 116, 97, 114>>
    [] name = "Rwanda" -> <<82, 119, 97, 110, 100, 97>>
    [] name = "Sao Tome and Principe" -> <<83, 97, 111, 32, 84, 111, 109, 101, 32, 97, 110, 100, 32, 80, 114, 105, 110, 99, 105, 112, 101>>
    [] name = "Saudi Arabia" -> <<83, 97, 117, 100, 105, 32, 65, 114, 97, 98, 105, 97>>
    [] name = "Senegal" -> <<83, 101, 110, 101, 103, 97, 108>>
    [] name = "Seychelles" -> <<83, 101, 121, 99, 104, 101, 108, 108, 101, 115>>
    [] name = "Sierra Leone" -> <<83, 105, 101, 114, 114, 97, 32, 76, 101, 111, 110, 101>>
    [] name = "Somalia" -> <<83, 111, 109, 97, 108, 105, 97>>
    [] name = "South Africa" -> <<83, 111, 117, 116, 104, 32, 65, 102, 114, 105, 99, 97>>
    [] name = "South Sudan" -> <<83, 111, 117, 116, 104, 32, 83, 117, 100, 97, 110>>
    [] name = "Sudan" -> <<83, 117, 100, 97, 110>>
    [] name = "Syria" -> <<83, 121, 114, 105, 97>>
    [] name = "Tanzania" -> <<84, 97, 110, 122, 97, 110, 105, 97>>
    [] name = "Togo" -> <<84, 111, 103, 111>>
    [] name = "Tunisia" -> <<84, 117, 110, 105, 115, 105, 97>>
    [] name = "Turkey" -> <<84, 117, 114, 107, 101, 121>>
    [] name = "Uganda" -> <<85, 103, 97, 110, 100, 97>>
    [] name = "United Arab Emirates" -> <<85, 110, 105, 116, 101, 100, 32, 65, 114, 97, 98, 32, 69, 109, 105, 114, 97, 116, 101, 115>>
    [] name = "Yemen" -> <<89, 101, 109, 101, 110>>
    [] name = "Zambia" -> <<90, 97, 109, 98, 105, 97>>
    [] name = "Zimbabwe" -> <<90, 105, 109, 98, 97, 98, 119, 101>>

(* src/app.py:55 *)
INCOTERMS == <<"EXW", "FCA", "FOB", "CFR", "CIF", "CPT", "CIP", "DAP", "DPU", "DDP">>

(* src/app.py:56 *)
MODES == <<"Air", "Sea", "Courier">>

(* src/app.py:57 *)
COMMODITIES == <<"General Electronics", "Batteries (DG)", "Chemicals (DG)", "Telecom/Radio", "Other">>

(* src/app.py:59 *)
LEGALIZATION_NEEDED ==
  {"Jordan", "Lebanon", "Iraq", "Palestine", "Syria", "Yemen", "Libya", "Tunisia", "Algeria", "Egypt", "Morocco"}

(* src/app.py:60 *)
SANCTIONS_COUNTRIES ==
  {"Iran", "Syria", "Libya", "Sudan", "South Sudan"}

(* src/app.py:62-77.  Each entry is the 7-tuple of the source, in its order:
   (doc, mandatory, resp, mode, commodity, incoterm, notes). *)
BASELINE_DOCS ==
  <<
    <<"Commercial Invoice", "Yes", "Shipper", "Any", "Any", "Any", "Signed & stamped; English unless required otherwise.">>,
    <<"Packing List", "Yes", "Shipper", "Any", "Any", "Any", "Itemized with qty, net/gross weight, dimensions.">>,
    <<"Certificate of Origin (COO)", "Yes", "Shipper", "Any", "Any", "Any", "Chamber of Commerce stamped; legalization may be requested.">>,
    <<"HS Codes Confirmed", "Yes", "Shipper", "Any", "Any", "Any", "Ensure correct 8-10 digit HS per line item.">>,
    <<"Product Description & Model/PN", "Yes", "Shipper", "Any", "Any", "Any", "Must match invoice & PL exactly.">>,
    <<"Export Declaration (origin)", "Yes", "Shipper", "Any", "Any", "Any", "EX1/SAD or origin equivalent.">>,
    <<"Transport Document", "Yes", "Shipper", "Air", "Any", "Any", "AWB for Air/Courier.">>,
    <<"Transport Document", "Yes", "Shipper", "Sea", "Any", "Any", "Original B/L or telex release for Sea.">>,
    <<"Transport Document", "Yes", "Shipper", "Courier", "Any", "Any", "Courier waybill/label.">>,
    <<"Insurance Certificate", "Conditional", "Shipper", "Any", "Any", "CIF/CIP or when risk transfers pre-delivery.", "Provide if terms require seller insurance.">>,
    <<"Dangerous Goods Declaration", "Conditional", "Shipper", "Air", "Batteries (DG)", "Any", "IATA DGD for DG shipments.">>,
    <<"IMDG/Sea DG Declaration", "Conditional", "Shipper", "Sea", "Batteries (DG)", "Any", "IMDG declaration for sea DG.">>,
    <<"MSDS/SDS", "Conditional", "Shipper", "Any", "Batteries (DG)", "Any", "Safety Data Sheet for batteries/chemicals.">>,
    <<"Radio/Telecom Type Approval", "Conditional", "Importer", "Any", "Telecom/Radio", "Any", "Importer may need local approval for RF/telecom.">>
  >>

(* src/app.py:80-137.  The statements that append to COUNTRY_SPECIFIC, in
   program order: each names the countries it appends to and the entries. *)
COUNTRY_SPECIFIC_APPENDS ==
  <<
    (* line 80 *)
    [countries |-> {"Bahrain", "Kuwait", "Oman", "Qatar", "Saudi Arabia", "United Arab Emirates"},
     docs |-> <<
       <<"Commercial Invoice (Attested)", "Yes", "Shipper", "Any", "Any", "Any", "Chamber of Commerce attestation commonly requested.">>,
       <<"COO (Legalized)", "Conditional", "Shipper", "Any", "Any", "Any", "Legalize via embassy/consulate if requested by importer.">>
     >>],
    (* line 85 *)
    [countries |-> {"Saudi Arabia"},
     docs |-> <<
       <<"SABER/SALEEM CoC (regulated goods)", "Conditional", "Importer", "Any", "Any", "Any", "Conformity & shipment certification via SABER.">>
     >>],
    (* line 86 *)
    [countries |-> {"Qatar"},
     docs |-> <<
       <<"Product Compliance Pre-Approval (regulated)", "Conditional", "Importer", "Any", "Telecom/Radio", "Any", "Required for some electronics/telecom.">>
     >>],
    (* line 87 *)
    [countries |-> {"Kuwait"},
     docs |-> <<
       <<"KUCAS/PAI Conformity (regulated)", "Conditional", "Importer", "Any", "Any", "Any", "Public Authority for Industry compliance.">>
     >>],
    (* line 88 *)
    [countries |-> {"Oman"},
     docs |-> <<
       <<"Import Permit (DG/chemicals)", "Conditional", "Importer", "Any", "Batteries (DG)", "Any", "Check ROP/DGSM based on commodity.">>
     >>],
    (* line 89 *)
    [countries |-> {"Jordan", "Lebanon", "Iraq", "Palestine", "Syria", "Yemen"},
     docs |-> <<
       <<"Invoice & COO Legalization", "Conditional", "Shipper", "Any", "Any", "Any", "Embassy legalization often required.">>
     >>],
    (* line 91 *)
    [countries |-> {"Israel"},
     docs |-> <<
       <<"SII Approval (regulated electronics)", "Conditional", "Importer", "Any", "Telecom/Radio", "Any", "Israel Standards Institute approvals.">>
     >>],
    (* line 92 *)
    [countries |-> {"Turkey"},
     docs |-> <<
       <<"ATR or EUR.1 (if applicable)", "Conditional", "Shipper", "Any", "Any", "Any", "Preferential origin doc for Customs Union/EU origin.">>,
       <<"Import License (telecom/RF, if applicable)", "Conditional", "Importer", "Any", "Telecom/Radio", "Any", "Permit for radio/telecom equipment when required.">>
     >>],
    (* line 96 *)
    [countries |-> {"Egypt"},
     docs |-> <<
       <<"ACID Number", "Yes", "Importer", "Any", "Any", "Any", "Advance Cargo Information Declaration (Nafeza).">>,
       <<"Invoice & COO Legalized", "Conditional", "Shipper", "Any", "Any", "Any", "Arabic details often required; legalize via embassy.">>
     >>],
    (* line 100 *)
    [countries |-> {"Morocco"},
     docs |-> <<
       <<"VoC/Conformity (regulated)", "Conditional", "Importer", "Any", "Any", "Any", "Verification of Conformity where applicable.">>,
       <<"Arabic/French Invoice Copy", "Conditional", "Shipper", "Any", "Any", "Any", "Language preference for customs clarity.">>
     >>],
    (* line 104 *)
    [countries |-> {"Tunisia"},
     docs |-> <<
       <<"Arabic/French Invoice Copy", "Conditional", "Shipper", "Any", "Any", "Any", "Language preference; legalization may be requested.">>
     >>],
    (* line 105 *)
    [countries |-> {"Algeria"},
     docs |-> <<
       <<"Arabic/French Invoice Copy", "Conditional", "Shipper", "Any", "Any", "Any", "Language preference; bank domiciliation may be requested.">>
     >>],
    (* line 106 *)
    [countries |-> {"Libya"},
     docs |-> <<
       <<"Legalized Documents", "Conditional", "Shipper", "Any", "Any", "Any", "Embassy legalization commonly required.">>
     >>],
    (* line 107 *)
    [countries |-> {"Kenya", "Tanzania", "Uganda", "Rwanda", "Burundi"},
     docs |-> <<
       <<"PVoC Certificate (regulated)", "Conditional", "Importer", "Any", "Any", "Any", "Pre-Export Verification of Conformity.">>
     >>],
    (* line 109 *)
    [countries |-> {"Kenya"},
     docs |-> <<
       <<"IDF (Import Declaration Form)", "Yes", "Importer", "Any", "Any", "Any", "Importer obtains; include on docs.">>
     >>],
    (* line 110 *)
    [countries |-> {"Tanzania", "Uganda"},
     docs |-> <<
       <<"Import Permit (batteries/chemicals)", "Conditional", "Importer", "Any", "Batteries (DG)", "Any", "Check local authority for hazardous goods.">>
     >>],
    (* line 112 *)
    [countries |-> {"Nigeria"},
     docs |-> <<
       <<"Form M", "Yes", "Importer", "Any", "Any", "Any", "Initiated by importer; must match invoice HS.">>,
       <<"SONCAP (regulated)", "Conditional", "Importer", "Any", "Any", "Any", "Standards Org. of Nigeria Conformity Assessment.">>,
       <<"PAAR", "Yes", "Importer", "Any", "Any", "Any", "Pre-Arrival Assessment Report (Customs).">>
     >>],
    (* line 117 *)
    [countries |-> {"Ghana"},
     docs |-> <<
       <<"G-CAP/CoC (regulated)", "Conditional", "Importer", "Any", "Any", "Any", "Conformity programme for selected goods.">>
     >>],
    (* line 118 *)
    [countries |-> {"Ethiopia"},
     docs |-> <<
       <<"ECAE CoC (regulated)", "Conditional", "Importer", "Any", "Any", "Any", "Conformity for selected goods.">>
     >>],
    (* line 119 *)
    [countries |-> {"South Africa"},
     docs |-> <<
       <<"NRCS LOA/SABS (regulated)", "Conditional", "Importer", "Any", "Any", "Any", "Letters of Authority/Approvals for certain categories.">>,
       <<"Import Permit (batteries/chemicals)", "Conditional", "Importer", "Any", "Batteries (DG)", "Any", "Regulator permits for hazardous goods.">>
     >>],
    (* line 123 *)
    [countries |-> {"Zimbabwe"},
     docs |-> <<
       <<"CBCA Certificate (regulated)", "Conditional", "Importer", "Any", "Any", "Any", "Consignment Based Conformity Assessment.">>
     >>],
    (* line 124 *)
    [countries |-> {"Zambia"},
     docs |-> <<
       <<"ZABS CoC (regulated)", "Conditional", "Importer", "Any", "Any", "Any", "Bureau of Standards conformity for selected goods.">>
     >>],
    (* line 125 *)
    [countries |-> {"Botswana", "Lesotho", "Namibia", "Eswatini"},
     docs |-> <<
       <<"Import Permit (regulated)", "Conditional", "Importer", "Any", "Any", "Any", "Permits for selected goods (SACU).">>
     >>],
    (* line 127 *)
    [countries |-> {"Senegal", "Cote d'Ivoire", "Mali", "Burkina Faso", "Niger", "Guinea", "Guinea-Bissau", "Togo", "Benin"},
     docs |-> <<
       <<"VoC/CoC (regulated)", "Conditional", "Importer", "Any", "Any", "Any", "Verification/Certificate of Conformity via appointed agencies. ">>
     >>],
    (* line 129 *)
    [countries |-> {"Cameroon", "Gabon", "Congo (Republic)", "Congo (DRC)", "Chad", "Central African Republic", "Equatorial Guinea"},
     docs |-> <<
       <<"VoC/CoC (regulated)", "Conditional", "Importer", "Any", "Any", "Any", "Pre-shipment conformity assessment common.">>
     >>],
    (* line 131 *)
    [countries |-> {"Somalia", "Sudan", "South Sudan", "Eritrea", "Djibouti"},
     docs |-> <<
       <<"Legalized Invoice & COO", "Conditional", "Shipper", "Any", "Any", "Any", "Embassy/consulate legalization often required.">>
     >>],
    (* line 133 *)
    [countries |-> {"Mauritius"},
     docs |-> <<
       <<"Import Permit (regulated)", "Conditional", "Importer", "Any", "Any", "Any", "Permits for regulated electronics/telecom as required.">>
     >>],
    (* line 134 *)
    [countries |-> {"Seychelles"},
     docs |-> <<
       <<"Import Permit (regulated)", "Conditional", "Importer", "Any", "Any", "Any", "Permits for hazardous or regulated goods. ">>
     >>],
    (* line 135 *)
    [countries |-> {"Cabo Verde"},
     docs |-> <<
       <<"Import Permit (regulated)", "Conditional", "Importer", "Any", "Any", "Any", "Importer secures permit where required.">>
     >>],
    (* line 136 *)
    [countries |-> {"Sao Tome and Principe"},
     docs |-> <<
       <<"Import Permit (regulated)", "Conditional", "Importer", "Any", "Any", "Any", "Importer secures permit where required.">>
     >>],
    (* line 137 *)
    [countries |-> {"Comoros"},
     docs |-> <<
       <<"Import Permit (regulated)", "Conditional", "Importer", "Any", "Any", "Any", "Importer secures permit where required.">>
     >>]
  >>

(***************************************************************************)
(* Helpers.                                                                *)
(***************************************************************************)

Range(s) == {s[i] : i \in DOMAIN s}

RECURSIVE Flatten(_)
Flatten(ss) == IF ss = <<>> THEN <<>> ELSE Head(ss) \o Flatten(Tail(ss))

(* Python's str.__lt__: lexicographic on code points, a proper prefix first. *)
StrLess(a, b) ==
  LET x == CodePoints(a)
      y == CodePoints(b)
  IN  \E k \in 0..Len(x) :
        /\ k <= Len(y)
        /\ \A j \in 1..k : x[j] = y[j]
        /\ \/ k = Len(x) /\ k < Len(y)
           \/ k < Len(x) /\ k < Len(y) /\ x[k + 1] < y[k + 1]

(* Python's sorted() over a set of strings: ascending, by StrLess. *)
RECURSIVE sorted(_)
sorted(S) ==
  IF S = {} THEN <<>>
  ELSE LET m == CHOOSE x \in S : \A y \in S \ {x} : StrLess(x, y)
       IN  <<m>> \o sorted(S \ {m})

(* src/app.py:53 *)
ALL_COUNTRIES == sorted(Range(MIDDLE_EAST) \cup Range(AFRICA))

(* src/app.py:79-137: every canonical country starts with [] and receives the
   entries of each append statement that names it, in program order. *)
COUNTRY_SPECIFIC ==
  [c \in Range(ALL_COUNTRIES) |->
     Flatten([k \in DOMAIN COUNTRY_SPECIFIC_APPENDS |->
                IF c \in COUNTRY_SPECIFIC_APPENDS[k].countries
                  THEN COUNTRY_SPECIFIC_APPENDS[k].docs
                  ELSE <<>>])]

(* COUNTRY_SPECIFIC.get(country, []) at src/app.py:147 *)
CountrySpecificGet(country) ==
  IF country \in DOMAIN COUNTRY_SPECIFIC THEN COUNTRY_SPECIFIC[country] ELSE <<>>

(***************************************************************************)
(* Resolver.                                                               *)
(***************************************************************************)

(* The row appended for a baseline entry, src/app.py:143-146.  The tuple is
   unpacked by position: (doc, mandatory, resp, mode, commodity, incoterm,
   notes). *)
BaselineRow(country, t) ==
  [Country        |-> country,
   Document       |-> t[1],
   Mandatory      |-> t[2],
   Responsibility |-> t[3],
   Mode           |-> t[4],
   Commodity      |-> t[5],
   Incoterms      |-> t[6],
   Notes          |-> t[7],
   Legalization   |-> IF country \in LEGALIZATION_NEEDED THEN "Likely" ELSE "As requested",
   RiskFlag       |-> IF country \in SANCTIONS_COUNTRIES
                        THEN "Sanctions/Export-Control Screen" ELSE "None"]

(* The country-specific row with the legalization label not derived from the
   country. *)
SpecificRowFixedLabel(country, t) ==
  [Country        |-> country,
   Document       |-> t[1],
   Mandatory      |-> t[2],
   Responsibility |-> t[3],
   Mode           |-> t[4],
   Commodity      |-> t[5],
   Incoterms      |-> t[6],
   Notes          |-> t[7],
   Legalization   |-> "As requested",
   RiskFlag       |-> IF country \in SANCTIONS_COUNTRIES
                        THEN "Sanctions/Export-Control Screen" ELSE "None"]

(* The row appended for a country-specific entry, src/app.py:147-150. *)
SpecificRow(country, t) ==
  [Country        |-> country,
   Document       |-> t[1],
   Mandatory      |-> t[2],
   Responsibility |-> t[3],
   Mode           |-> t[4],
   Commodity      |-> t[5],
   Incoterms      |-> t[6],
   Notes          |-> t[7],
   Legalization   |-> IF country \in LEGALIZATION_NEEDED THEN "Likely" ELSE "As requested",
   RiskFlag       |-> IF country \in SANCTIONS_COUNTRIES
                        THEN "Sanctions/Export-Control Screen" ELSE "None"]

(* The outer loop body with its two inner loops in the other order. *)
CountryRowsSpecificFirst(country) ==
  [i \in 1..Len(CountrySpecificGet(country)) |->
     SpecificRow(country, CountrySpecificGet(country)[i])]
  \o [i \in 1..Len(BASELINE_DOCS) |-> BaselineRow(country, BASELINE_DOCS[i])]

(* One pass of the outer loop of master_dataframe, src/app.py:142-150. *)
CountryRows(country) ==
  [i \in 1..Len(BASELINE_DOCS) |-> BaselineRow(country, BASELINE_DOCS[i])]
  \o [i \in 1..Len(CountrySpecificGet(country)) |->
        SpecificRow(country, CountrySpecificGet(country)[i])]

(* src/app.py:139-151 *)
master_dataframe ==
  Flatten([k \in DOMAIN ALL_COUNTRIES |-> CountryRows(ALL_COUNTRIES[k])])

(* filter_rows with the first selected row left out of the result. *)
filter_rows_skip_first(df, country, incoterm, mode, commodity) ==
  LET keep(r) == /\ r.Country = country
                 /\ (r.Mode = "Any") \/ (r.Mode = mode)
                 /\ (r.Commodity = "Any") \/ (r.Commodity = commodity)
                 /\ (r.Incoterms = "Any") \/ (r.Incoterms = incoterm)
      kept    == SelectSeq(df, keep)
  IN  IF kept = <<>> THEN kept ELSE Tail(kept)

(* filter_rows with the masks of the three dimensions joined by "or". *)
filter_rows_or_dimensions(df, country, incoterm, mode, commodity) ==
  LET keep(r) == /\ r.Country = country
                 /\ \/ (r.Mode = "Any") \/ (r.Mode = mode)
                    \/ (r.Commodity = "Any") \/ (r.Commodity = commodity)
                    \/ (r.Incoterms = "Any") \/ (r.Incoterms = incoterm)
  IN  SelectSeq(df, keep)

(* filter_rows with the country test left out of the combined mask. *)
filter_rows_no_country(df, country, incoterm, mode, commodity) ==
  LET keep(r) == /\ (r.Mode = "Any") \/ (r.Mode = mode)
                 /\ (r.Commodity = "Any") \/ (r.Commodity = commodity)
                 /\ (r.Incoterms = "Any") \/ (r.Incoterms = incoterm)
  IN  SelectSeq(df, keep)

(* filter_rows with the mode mask left out of the combined mask. *)
filter_rows_no_mode(df, country, incoterm, mode, commodity) ==
  LET keep(r) == /\ r.Country = country
                 /\ (r.Commodity = "Any") \/ (r.Commodity = commodity)
                 /\ (r.Incoterms = "Any") \/ (r.Incoterms = incoterm)
  IN  SelectSeq(df, keep)

(* filter_rows with the mode mask written without its "Any" alternative. *)
filter_rows_strict_mode(df, country, incoterm, mode, commodity) ==
  LET keep(r) == /\ r.Country = country
                 /\ r.Mode = mode
                 /\ (r.Commodity = "Any") \/ (r.Commodity = commodity)
                 /\ (r.Incoterms = "Any") \/ (r.Incoterms = incoterm)
  IN  SelectSeq(df, keep)

(* src/app.py:153-158.  The boolean masks are combined with & and the frame is
   indexed by the mask, which keeps the selected rows in their order;
   reset_index(drop=True) renumbers them from the start. *)
filter_rows(df, country, incoterm, mode, commodity) ==
  LET m_country(r) == r.Country = country
      m_mode(r)    == (r.Mode = "Any") \/ (r.Mode = mode)
      m_comm(r)    == (r.Commodity = "Any") \/ (r.Commodity = commodity)
      m_inc(r)     == (r.Incoterms = "Any") \/ (r.Incoterms = incoterm)
      keep(r)      == m_country(r) /\ m_mode(r) /\ m_comm(r) /\ m_inc(r)
  IN  SelectSeq(df, keep)

(* src/app.py:177-178: the six columns of the working view, with "Provided?"
   inserted as False for every row. *)
WorkView(sel) ==
  [i \in 1..Len(sel) |->
     [Document       |-> sel[i].Document,
      Mandatory      |-> sel[i].Mandatory,
      Responsibility |-> sel[i].Responsibility,
      Provided       |-> FALSE,
      Notes          |-> sel[i].Notes,
      Legalization   |-> sel[i].Legalization,
      RiskFlag       |-> sel[i].RiskFlag]]

(***************************************************************************)
(* Status calculation, src/app.py:209-213.                                 *)
(***************************************************************************)

(* src/app.py:210 *)
mandatory_mask(r) == r.Mandatory = "Yes"

(* src/app.py:211 *)
mandatory_total(rows) == Cardinality({i \in DOMAIN rows : mandatory_mask(rows[i])})

(* src/app.py:212 *)
provided_yes(rows) ==
  Cardinality({i \in DOMAIN rows : (rows[i].Provided = TRUE) /\ mandatory_mask(rows[i])})

(* The status expression without its mandatory_total > 0 test. *)
StatusNoPositiveTest(rows) ==
  IF provided_yes(rows) = mandatory_total(rows)
    THEN <<"READY">>
    ELSE IF mandatory_total(rows) = 0
           THEN <<"No mandatory docs">>
           ELSE <<"PENDING", provided_yes(rows), mandatory_total(rows)>>

(* The status expression with the provided rows counted whatever their
   Mandatory value. *)
StatusCountsAllProvided(rows) ==
  LET provided == Cardinality({i \in DOMAIN rows : rows[i].Provided = TRUE})
  IN  IF mandatory_total(rows) > 0 /\ provided >= mandatory_total(rows)
        THEN <<"READY">>
        ELSE IF mandatory_total(rows) = 0
               THEN <<"No mandatory docs">>
               ELSE <<"PENDING", provided, mandatory_total(rows)>>

(* src/app.py:213.  The status string is "READY", "No mandatory docs" or
   "PENDING (k/n)"; the model keeps the label and the two interpolated
   numbers as a tuple. *)
StatusCalculation(rows) ==
  IF mandatory_total(rows) > 0 /\ provided_yes(rows) = mandatory_total(rows)
    THEN <<"READY">>
    ELSE IF mandatory_total(rows) = 0
           THEN <<"No mandatory docs">>
           ELSE <<"PENDING", provided_yes(rows), mandatory_total(rows)>>

(***************************************************************************)
(* Font set-up, src/app.py:13-36 and 218-228.                              *)
(***************************************************************************)

(* src/app.py:18 *)
DEJAVU_URL == "https://github.com/dejavu-fonts/dejavu-fonts/raw/version_2_37/ttf/DejaVuSans.ttf"

(* src/app.py:19 *)
FALLBACK_URL == "https://github.com/google/fonts/raw/main/apache/roboto/Roboto-Regular.ttf"

(* src/app.py:24 *)
url_list == <<DEJAVU_URL, FALLBACK_URL>>

(* The size a font file or a response body must exceed, src/app.py:22 and 28. *)
MinFontSize == 100000

(* The file at TTF_PATH: whether it exists, and its size in bytes. *)
NoFile == [exists |-> FALSE, size |-> 0]
FileOf(n) == [exists |-> TRUE, size |-> n]

(* The outcomes of one requests.get: an exception, or a response with its ok
   flag and the length of its content. *)
Sizes == {0, MinFontSize, MinFontSize + 1}
Outcomes ==
  {[exc |-> TRUE, ok |-> FALSE, size |-> 0]}
  \cup {[exc |-> FALSE, ok |-> o, size |-> n] : o \in BOOLEAN, n \in Sizes}

(* src/app.py:28: the test that lets a response be written as the font. *)
Acceptable(o) == o.ok /\ o.size > MinFontSize

(* The loop of ensure_ttf with the marker written whether or not the file
   exists. *)
RECURSIVE TryUrlsAlwaysMarker(_, _, _, _)
TryUrlsAlwaysMarker(file, outs, k, log) ==
  IF k > Len(url_list)
    THEN [file |-> FileOf(0), log |-> log, raised |-> FALSE]
    ELSE LET tried == Append(log, [url |-> url_list[k], out |-> outs[k]])
         IN  IF ~outs[k].exc /\ Acceptable(outs[k])
               THEN [file |-> FileOf(outs[k].size), log |-> tried, raised |-> FALSE]
               ELSE TryUrlsAlwaysMarker(file, outs, k + 1, tried)

(* The loop of ensure_ttf, src/app.py:25-36, from its k-th URL on: outs[k] is
   what requests.get does for url_list[k].  An exception is caught and passed
   over (lines 31-32); an acceptable response is written and ends the call
   (lines 28-30); after the last URL an empty marker is written unless the
   file exists (lines 34-35). *)
RECURSIVE TryUrls(_, _, _, _)
TryUrls(file, outs, k, log) ==
  IF k > Len(url_list)
    THEN [file   |-> IF ~file.exists THEN FileOf(0) ELSE file,
          log    |-> log,
          raised |-> FALSE]
    ELSE LET tried == Append(log, [url |-> url_list[k], out |-> outs[k]])
         IN  IF ~outs[k].exc /\ Acceptable(outs[k])
               THEN [file |-> FileOf(outs[k].size), log |-> tried, raised |-> FALSE]
               ELSE TryUrls(file, outs, k + 1, tried)

(* src/app.py:21-36 *)
ensure_ttf(file, outs) ==
  IF file.exists /\ file.size > MinFontSize
    THEN [file |-> file, log |-> <<>>, raised |-> FALSE]
    ELSE TryUrls(file, outs, 1, <<>>)

(* PDF.__init__, src/app.py:219-228: the font the PDF object is set to. *)
PdfInitFont(file) ==
  IF file.exists /\ file.size > 0 THEN "DejaVu" ELSE "Helvetica"

(***************************************************************************)
(* State.                                                                  *)
(***************************************************************************)

VARIABLES
  country, incoterm, mode, commodity,  \* the sidebar selection, lines 162-165
  df_sel, work_df,                     \* the frames of lines 174-178
  edited,                              \* what st.data_editor returns, line 192
  status,                              \* line 213
  ttf,                                 \* the file at TTF_PATH
  pdf_font,                            \* the font of the last PDF object
  fetch_log,                           \* the requests of the last ensure_ttf call
  raised,                              \* the last run ended with an exception
  pc,                                  \* "start" before the script's first run
  steps                                \* user interactions so far

vars == <<country, incoterm, mode, commodity, df_sel, work_df,
          edited, status, ttf, pdf_font, fetch_log, raised, pc, steps>>

font_vars == <<ttf, pdf_font, fetch_log>>

(* Bounds of the model. *)
MaxSteps == 1
MaxAdded == 3

(* A cell the editor leaves empty in a row the user adds. *)
NULL == "<null>"

(* The row the editor appends (num_rows="dynamic", src/app.py:195): every
   cell empty.  An empty "Provided?" cell is not True at line 212, so the
   model holds it as FALSE. *)
BlankRow ==
  [Document |-> NULL, Mandatory |-> NULL, Responsibility |-> NULL,
   Provided |-> FALSE, Notes |-> NULL, Legalization |-> NULL, RiskFlag |-> NULL]

(* One run of the script body, src/app.py:173-213, with the selection
   (c, i, m, co) and the grid content the editor holds.  No statement of it
   raises: the comparisons of filter_rows are False for an unknown value.  df_master (line
   173) is the value of master_dataframe(), the same in every run.  The editor (line
   192, key="editor") keeps the user's edits while the frame it is given is
   the same, and starts again from the frame when the frame differs. *)
ScriptRun(c, i, m, co, grid) ==
  /\ country' = c
  /\ incoterm' = i
  /\ mode' = m
  /\ commodity' = co
  /\ df_sel' = filter_rows(master_dataframe, c, i, m, co)
  /\ work_df' = WorkView(df_sel')
  /\ edited' = IF work_df' = work_df THEN grid ELSE work_df'
  /\ status' = StatusCalculation(edited')
  /\ pc' = "done"

(* The state a run of the script leaves for the default selection of lines
   162-165, with `file` at TTF_PATH and `grid` in the editor. *)
DefaultSession(file, grid) ==
  /\ country = "United Arab Emirates"
  /\ incoterm = "DAP"
  /\ mode = MODES[1]
  /\ commodity = COMMODITIES[1]
  /\ df_sel = filter_rows(master_dataframe, country, incoterm, mode, commodity)
  /\ work_df = WorkView(df_sel)
  /\ edited = IF grid = <<>> THEN work_df ELSE grid[1]
  /\ status = StatusCalculation(edited)
  /\ ttf = file
  /\ pdf_font = "none"
  /\ fetch_log = <<>>
  /\ raised = FALSE
  /\ pc = "done"
  /\ steps = 0

(* The first run of a session: the defaults, the grid as the script builds
   it, no font file fetched yet (line 15 has just made the fonts directory). *)
Init == DefaultSession(NoFile, <<>>)

(***************************************************************************)
(* User interactions: each one starts a run of the script.                 *)
(***************************************************************************)

(* The interaction budget of Spec. *)
Budget == steps < MaxSteps /\ steps' = steps + 1

(* A change of one sidebar select box, src/app.py:162-165. *)
Select(c, i, m, co) ==
  /\ pc = "done"
  /\ ScriptRun(c, i, m, co, edited)
  /\ raised' = FALSE
  /\ UNCHANGED font_vars

(* The "Provided?" checkbox of row k, src/app.py:201. *)
Toggle(k) ==
  /\ pc = "done"
  /\ ScriptRun(country, incoterm, mode, commodity,
               [edited EXCEPT ![k].Provided = ~@])
  /\ raised' = FALSE
  /\ UNCHANGED font_vars

(* The "Mandatory" select box of row k set to v, src/app.py:199. *)
SetMandatory(k, v) ==
  /\ pc = "done"
  /\ edited[k].Mandatory # v
  /\ ScriptRun(country, incoterm, mode, commodity,
               [edited EXCEPT ![k].Mandatory = v])
  /\ raised' = FALSE
  /\ UNCHANGED font_vars

(* A row added at the end of the grid, src/app.py:195. *)
Add ==
  /\ pc = "done"
  /\ Cardinality({k \in DOMAIN edited : edited[k].Document = NULL}) < MaxAdded
  /\ ScriptRun(country, incoterm, mode, commodity, Append(edited, BlankRow))
  /\ raised' = FALSE
  /\ UNCHANGED font_vars

(* Row k deleted from the grid, src/app.py:195. *)
Delete(k) ==
  /\ pc = "done"
  /\ ScriptRun(country, incoterm, mode, commodity,
               SubSeq(edited, 1, k - 1) \o SubSeq(edited, k + 1, Len(edited)))
  /\ raised' = FALSE
  /\ UNCHANGED font_vars

(* The "Generate PDF" button, src/app.py:339-347: the script runs, build_pdf
   makes a PDF object, whose __init__ calls ensure_ttf and sets the font
   (an exception out of ensure_ttf would end __init__ before it does).
   o1 and o2 are what the two downloads do when they are asked. *)
Generate(o1, o2) ==
  LET r == ensure_ttf(ttf, <<o1, o2>>)
  IN  /\ pc = "done"
      /\ ScriptRun(country, incoterm, mode, commodity, edited)
      /\ ttf' = r.file
      /\ fetch_log' = r.log
      /\ raised' = r.raised
      /\ pdf_font' = IF r.raised THEN pdf_font ELSE PdfInitFont(r.file)

SelectCountry ==
  \E c \in Range(ALL_COUNTRIES) : Budget /\ Select(c, incoterm, mode, commodity)

SelectIncoterm ==
  \E i \in Range(INCOTERMS) : Budget /\ Select(country, i, mode, commodity)

SelectMode ==
  \E m \in Range(MODES) : Budget /\ Select(country, incoterm, m, commodity)

SelectCommodity ==
  \E co \in Range(COMMODITIES) : Budget /\ Select(country, incoterm, mode, co)

ToggleProvided == \E k \in DOMAIN edited : Budget /\ Toggle(k)

EditMandatory ==
  \E k \in DOMAIN edited, v \in {"Yes", "Conditional"} : Budget /\ SetMandatory(k, v)

AddRow == Budget /\ Add

DeleteRow == \E k \in DOMAIN edited : Budget /\ Delete(k)

GeneratePDF == \E o1 \in Outcomes, o2 \in Outcomes : Budget /\ Generate(o1, o2)

Next ==
  \/ SelectCountry
  \/ SelectIncoterm
  \/ SelectMode
  \/ SelectCommodity
  \/ ToggleProvided
  \/ EditMandatory
  \/ AddRow
  \/ DeleteRow
  \/ GeneratePDF

(* A session of at most MaxSteps interactions. *)
Spec == Init /\ [][Next]_vars

(***************************************************************************)
(* The default session under any sequence of "Provided?" toggles.          *)
(***************************************************************************)

ToggleOnly == \E k \in DOMAIN edited : Toggle(k) /\ UNCHANGED steps

SpecToggle == Init /\ [][ToggleOnly]_vars

(***************************************************************************)
(* The grid under any sequence of edits.  The session starts from a grid   *)
(* the editor can hold after the rows of the working view were deleted and *)
(* at most MaxAdded rows were added and edited.                            *)
(***************************************************************************)

RECURSIVE SeqsUpTo(_, _)
SeqsUpTo(S, n) ==
  IF n = 0 THEN {<<>>}
  ELSE LET shorter == SeqsUpTo(S, n - 1)
       IN  shorter \cup {Append(s, x) : s \in shorter, x \in S}

GridRows ==
  {[BlankRow EXCEPT !.Mandatory = md, !.Provided = p] :
     md \in {NULL, "Yes", "Conditional"}, p \in BOOLEAN}

InitGrid == \E g \in SeqsUpTo(GridRows, MaxAdded) : DefaultSession(NoFile, <<g>>)

GridToggle == \E k \in DOMAIN edited : Toggle(k) /\ UNCHANGED steps

GridMandatory ==
  \E k \in DOMAIN edited, v \in {"Yes", "Conditional"} :
    SetMandatory(k, v) /\ UNCHANGED steps

GridAdd == Add /\ UNCHANGED steps

GridDelete == \E k \in DOMAIN edited : Delete(k) /\ UNCHANGED steps

NextGrid == GridToggle \/ GridMandatory \/ GridAdd \/ GridDelete

SpecGrid == InitGrid /\ [][NextGrid]_vars

(***************************************************************************)
(* The resolver called with any arguments: the first run of the script     *)
(* with each selection value drawn from its list or unrecognized.          *)
(***************************************************************************)

CountryArgs == Range(ALL_COUNTRIES) \cup {"Atlantis"}
IncotermArgs == Range(INCOTERMS) \cup {"XYZ"}
ModeArgs == Range(MODES) \cup {"Rail"}
CommodityArgs == Range(COMMODITIES) \cup {"Furniture"}

InitResolve ==
  /\ country \in CountryArgs
  /\ incoterm \in IncotermArgs
  /\ mode \in ModeArgs
  /\ commodity \in CommodityArgs
  /\ df_sel = <<>>
  /\ work_df = <<>>
  /\ edited = <<>>
  /\ status = <<>>
  /\ ttf = NoFile
  /\ pdf_font = "none"
  /\ fetch_log = <<>>
  /\ raised = FALSE
  /\ pc = "start"
  /\ steps = 0

FirstRun ==
  /\ pc = "start"
  /\ ScriptRun(country, incoterm, mode, commodity, <<>>)
  /\ raised' = FALSE
  /\ UNCHANGED font_vars
  /\ UNCHANGED steps

SpecResolve == InitResolve /\ [][FirstRun]_vars

(***************************************************************************)
(* The font set-up from any font file and any download outcomes.           *)
(***************************************************************************)

InitFiles == {NoFile} \cup {FileOf(n) : n \in Sizes \cup {1}}

InitPdf == \E f \in InitFiles : DefaultSession(f, <<>>)

GenerateOnly ==
  \E o1 \in Outcomes, o2 \in Outcomes : Generate(o1, o2) /\ UNCHANGED steps

SpecPdf == InitPdf /\ [][GenerateOnly]_vars

(***************************************************************************)
(* A review session: the grid is as the script builds it, or the user has  *)
(* ticked some of its rows, and at most MaxSteps interactions follow.      *)
(***************************************************************************)

(* The state a run of the script leaves for the selection (c, i, m, co),
   src/app.py:173-213, with the first `ticked` rows of the grid marked
   provided, the state `ticked` clicks on the checkboxes of line 201 lead
   to (none when ticked = 0: the grid is the working view). *)
Session(c, i, m, co, ticked) ==
  /\ country = c
  /\ incoterm = i
  /\ mode = m
  /\ commodity = co
  /\ df_sel = filter_rows(master_dataframe, c, i, m, co)
  /\ work_df = WorkView(df_sel)
  /\ edited = [k \in DOMAIN work_df |->
                 [work_df[k] EXCEPT !.Provided = (k <= ticked)]]
  /\ status = StatusCalculation(edited)
  /\ ttf = NoFile
  /\ pdf_font = "none"
  /\ fetch_log = <<>>
  /\ raised = FALSE
  /\ pc = "done"
  /\ steps = 0

(* The session starts with the default country, incoterm and commodity of
   lines 162-165, any mode, and any number of leading rows ticked. *)
InitSession ==
  \E m \in Range(MODES) :
    \E ticked \in 0..Len(filter_rows(master_dataframe, "United Arab Emirates",
                                     "DAP", m, COMMODITIES[1])) :
      Session("United Arab Emirates", "DAP", m, COMMODITIES[1], ticked)

(* No row is added or removed and no "Mandatory" cell is edited: the user
   changes the selection and ticks or unticks rows. *)
NextSession ==
  \/ SelectCountry
  \/ SelectIncoterm
  \/ SelectMode
  \/ SelectCommodity
  \/ ToggleProvided

SpecSession == InitSession /\ [][NextSession]_vars

(***************************************************************************)
(* Properties.                                                             *)
(***************************************************************************)

(* The k-th smallest element of a finite set of integers. *)
Nth(I, k) == CHOOSE i \in I : Cardinality({x \in I : x < i}) = k - 1

(* The selection predicate of the specification, for the selection in effect. *)
Selected(r) ==
  /\ r.Country = country
  /\ r.Mode \in {"Any", mode}
  /\ r.Commodity \in {"Any", commodity}
  /\ r.Incoterms \in {"Any", incoterm}

(* C1: after a run with any selection, df_sel holds exactly the rows of
   master_dataframe() whose Country is the selected country and whose Mode,
   Commodity and Incoterms are each "Any" or the selected value: none is
   missing, none that fails a conjunct is present, and they are in the order
   they have in master_dataframe(). *)
C1_FilterExact ==
  pc = "done" =>
    LET M == master_dataframe
        I == {i \in DOMAIN M : Selected(M[i])}
    IN  /\ Len(df_sel) = Cardinality(I)
        /\ \A j \in DOMAIN df_sel : df_sel[j] = M[Nth(I, j)]
        /\ \A j \in DOMAIN df_sel : Selected(df_sel[j])

(* A selection whose output mixes "Any" rows with rows of the selected mode
   and commodity, and leaves rows of the country out. *)
C1_Witness ==
  /\ pc = "done"
  /\ country = "Oman" /\ incoterm = "FOB" /\ mode = "Sea"
  /\ commodity = "Batteries (DG)"
  /\ Len(df_sel) = 12
  /\ \E j \in DOMAIN df_sel : df_sel[j].Document = "IMDG/Sea DG Declaration"
  /\ \E j \in DOMAIN df_sel : df_sel[j].Document = "Import Permit (DG/chemicals)"
  /\ \A j \in DOMAIN df_sel : df_sel[j].Document # "Dangerous Goods Declaration"

(* The rows of a grid that count as mandatory, and those of them that are
   provided, counted row by row. *)
RECURSIVE YesRows(_)
YesRows(rows) ==
  IF rows = <<>> THEN 0
  ELSE (IF Head(rows).Mandatory = "Yes" THEN 1 ELSE 0) + YesRows(Tail(rows))

RECURSIVE YesProvidedRows(_)
YesProvidedRows(rows) ==
  IF rows = <<>> THEN 0
  ELSE (IF Head(rows).Mandatory = "Yes" /\ Head(rows).Provided THEN 1 ELSE 0)
       + YesProvidedRows(Tail(rows))

(* C2: for every grid, the empty one included, the status is exactly one of
   three outcomes: "No mandatory docs" iff no row is mandatory, "READY" iff
   some row is mandatory and every mandatory row is provided, and otherwise
   "PENDING" with the provided count and the mandatory total, the count
   below the total (so 0 provided of n > 0 gives PENDING (0/n)). *)
C2_StatusTotal ==
  pc = "done" =>
    LET n == YesRows(edited)
        k == YesProvidedRows(edited)
    IN  /\ status \in {<<"No mandatory docs">>, <<"READY">>, <<"PENDING", k, n>>}
        /\ status = <<"No mandatory docs">> <=> n = 0
        /\ status = <<"READY">> <=> (n > 0 /\ k = n)
        /\ status = <<"PENDING", k, n>> <=> (n > 0 /\ k # n)
        /\ status[1] = "PENDING" => k < n
        /\ (n > 0 /\ k = 0) => status = <<"PENDING", 0, n>>

(* The empty grid, with its status computed. *)
C2_Witness ==
  pc = "done" /\ edited = <<>> /\ status = <<"No mandatory docs">>

(* The "Provided?" checkbox of a row that is not mandatory has just been
   toggled. *)
ToggledNonMandatory ==
  \E k \in DOMAIN edited :
    /\ edited[k].Mandatory # "Yes"
    /\ edited' = [edited EXCEPT ![k].Provided = ~@]

(* C3 as stated: toggling "Provided?" of a row that is not mandatory leaves
   the status unchanged, and the status is READY whenever every mandatory
   row is provided. *)
C3_AsStated ==
  /\ [][ToggledNonMandatory => status' = status]_vars
  /\ [](pc = "done" =>
          ((\A k \in DOMAIN edited : edited[k].Mandatory = "Yes" => edited[k].Provided)
             => status = <<"READY">>))

(* C3, amended: toggling "Provided?" of a row that is not mandatory leaves
   the status (label and both counts) unchanged, and the status is READY
   whenever the grid has a mandatory row and every mandatory row is
   provided, whatever the other rows' "Provided?" values are. *)
C3_ConditionalFrame ==
  /\ [][ToggledNonMandatory => status' = status]_vars
  /\ [](pc = "done" =>
          (((\E k \in DOMAIN edited : edited[k].Mandatory = "Yes")
            /\ (\A k \in DOMAIN edited : edited[k].Mandatory = "Yes" => edited[k].Provided))
             => status = <<"READY">>))

(* A READY grid with a mandatory row and a Conditional row marked provided. *)
C3_Witness ==
  /\ pc = "done"
  /\ status = <<"READY">>
  /\ \E k \in DOMAIN edited : edited[k].Mandatory = "Yes"
  /\ \E k \in DOMAIN edited : edited[k].Mandatory = "Conditional" /\ edited[k].Provided

(* The position of a canonical country in ALL_COUNTRIES. *)
CountryIndex(c) == CHOOSE k \in DOMAIN ALL_COUNTRIES : ALL_COUNTRIES[k] = c

(* ALL_COUNTRIES lists every country of the two groups once, ascending. *)
CountriesSorted ==
  /\ Range(ALL_COUNTRIES) = Range(MIDDLE_EAST) \cup Range(AFRICA)
  /\ \A k \in 1..(Len(ALL_COUNTRIES) - 1) :
       StrLess(ALL_COUNTRIES[k], ALL_COUNTRIES[k + 1])

(* The table is country-major: along it, the country never moves back in
   ALL_COUNTRIES, and every canonical country occurs. *)
MasterCountryMajor ==
  LET M == master_dataframe
  IN  /\ \A i \in 1..(Len(M) - 1) :
           CountryIndex(M[i].Country) <= CountryIndex(M[i + 1].Country)
      /\ {M[i].Country : i \in DOMAIN M} = Range(ALL_COUNTRIES)

RECURSIVE RowCountFrom(_)
RowCountFrom(k) ==
  IF k > Len(ALL_COUNTRIES) THEN 0
  ELSE Len(BASELINE_DOCS) + Len(COUNTRY_SPECIFIC[ALL_COUNTRIES[k]]) + RowCountFrom(k + 1)

(* The row that requirement t, bound to country c, is resolved to, but for
   its two labels. *)
Binds(r, c, t) ==
  /\ r.Country = c
  /\ r.Document = t[1]
  /\ r.Mandatory = t[2]
  /\ r.Responsibility = t[3]
  /\ r.Mode = t[4]
  /\ r.Commodity = t[5]
  /\ r.Incoterms = t[6]
  /\ r.Notes = t[7]

(* The rows of master_dataframe() of country c, in their order. *)
MasterRowsOf(c) ==
  LET of_c(r) == r.Country = c
  IN  SelectSeq(master_dataframe, of_c)

(* C4: master_dataframe() is country-major in the sorted order of
   ALL_COUNTRIES; the rows of the selected country are the BASELINE_DOCS
   entries in their order followed by its COUNTRY_SPECIFIC entries in their
   order, |BASELINE_DOCS| + |COUNTRY_SPECIFIC[C]| rows, one per baseline
   entry; and the table's size is the sum of these counts over the countries. *)
C4_MasterCountryMajor ==
  (pc = "done" /\ country \in Range(ALL_COUNTRIES)) =>
    LET rows == MasterRowsOf(country)
        nb   == Len(BASELINE_DOCS)
        cs   == COUNTRY_SPECIFIC[country]
    IN  /\ CountriesSorted
        /\ MasterCountryMajor
        /\ Len(master_dataframe) = RowCountFrom(1)
        /\ Len(rows) = nb + Len(cs)
        /\ \A j \in 1..nb : Binds(rows[j], country, BASELINE_DOCS[j])
        /\ \A j \in 1..Len(cs) : Binds(rows[nb + j], country, cs[j])

(* A country with three entries of its own: 14 baseline rows, then 3. *)
C4_Witness ==
  /\ pc = "done"
  /\ country = "Nigeria"
  /\ Len(MasterRowsOf(country)) = 17
  /\ MasterRowsOf(country)[14].Document = "Radio/Telecom Type Approval"
  /\ MasterRowsOf(country)[17].Document = "PAAR"

(* The two labels a row of country c must carry. *)
LabelsOf(r, c) ==
  /\ r.Legalization = IF c \in LEGALIZATION_NEEDED THEN "Likely" ELSE "As requested"
  /\ r.RiskFlag = IF c \in SANCTIONS_COUNTRIES
                    THEN "Sanctions/Export-Control Screen" ELSE "None"

(* C7: every materialized row of the selected country, baseline or
   country-specific, carries the country's Legalization and Risk Flag labels,
   and so do the rows of the filtered frame and of the working view; every
   resolved row of Iran has the sanctions label, every one of Kenya has
   Risk Flag "None" and Legalization "As requested". *)
C7_CountryLabels ==
  pc = "done" =>
    LET rows == MasterRowsOf(country)
    IN  /\ \A j \in DOMAIN rows : LabelsOf(rows[j], country)
        /\ \A j \in DOMAIN df_sel : LabelsOf(df_sel[j], country)
        /\ \A j \in DOMAIN work_df : LabelsOf(work_df[j], country)
        /\ country = "Iran" =>
             \A j \in DOMAIN df_sel :
               df_sel[j].RiskFlag = "Sanctions/Export-Control Screen"
        /\ country = "Kenya" =>
             \A j \in DOMAIN df_sel :
               df_sel[j].RiskFlag = "None" /\ df_sel[j].Legalization = "As requested"

(* Iran selected: its resolved rows are there and carry the sanctions label. *)
C7_Witness ==
  /\ pc = "done"
  /\ country = "Iran"
  /\ Len(df_sel) = 7
  /\ df_sel[7].RiskFlag = "Sanctions/Export-Control Screen"
  /\ df_sel[7].Legalization = "As requested"

(* The documents of the mandatory rows of a grid, in the grid's order. *)
MandatoryDocuments(rows) ==
  LET yes(r) == r.Mandatory = "Yes"
      kept   == SelectSeq(rows, yes)
  IN  [j \in DOMAIN kept |-> kept[j].Document]

(* C5: with United Arab Emirates / DAP / Air / General Electronics selected
   and only "Provided?" edited, the filtered frame holds the rows
   "Commercial Invoice (Attested)" (Mandatory Yes) and "COO (Legalized)"
   (Mandatory Conditional), the mandatory rows are the eight listed ones (the
   transport document being the one for Air), and the status is READY
   exactly when all eight are provided and PENDING (k/8) with k < 8
   otherwise. *)
C5_UaeScenario ==
  (/\ pc = "done"
   /\ country = "United Arab Emirates" /\ incoterm = "DAP"
   /\ mode = "Air" /\ commodity = "General Electronics") =>
    LET k == YesProvidedRows(edited)
    IN  /\ \E j \in DOMAIN df_sel :
             /\ df_sel[j].Document = "Commercial Invoice (Attested)"
             /\ df_sel[j].Mandatory = "Yes"
        /\ \E j \in DOMAIN df_sel :
             /\ df_sel[j].Document = "COO (Legalized)"
             /\ df_sel[j].Mandatory = "Conditional"
        /\ MandatoryDocuments(edited) =
             <<"Commercial Invoice", "Packing List", "Certificate of Origin (COO)",
               "HS Codes Confirmed", "Product Description & Model/PN",
               "Export Declaration (origin)", "Transport Document",
               "Commercial Invoice (Attested)">>
        /\ \A j \in DOMAIN df_sel :
             df_sel[j].Document = "Transport Document" => df_sel[j].Mode = "Air"
        /\ Len(edited) = Len(df_sel)
        /\ YesRows(edited) = 8
        /\ status = <<"READY">> <=> k = 8
        /\ k # 8 => (status = <<"PENDING", k, 8>> /\ k < 8)

(* All eight mandatory rows marked provided, the Conditional row not. *)
C5_Witness ==
  /\ pc = "done"
  /\ country = "United Arab Emirates" /\ mode = "Air"
  /\ status = <<"READY">>
  /\ YesProvidedRows(edited) = 8
  /\ \E j \in DOMAIN edited : edited[j].Mandatory = "Conditional" /\ ~edited[j].Provided

(* The values a requirement's filter fields may take. *)
ModeEnum == {"Any"} \cup Range(MODES)
CommodityEnum == {"Any"} \cup Range(COMMODITIES)
IncotermEnum == {"Any"} \cup Range(INCOTERMS)

(* The requirements of country c: the baseline entries, then its own. *)
RequirementsOf(c) == BASELINE_DOCS \o CountrySpecificGet(c)

(* C6: every requirement of the selected country (baseline or
   country-specific) has its mode, commodity and incoterm in their
   enumerations, and is in the filtered output of at least one concrete
   (incoterm, mode, commodity) selection for the country. *)
C6_RuleStoreEnums ==
  pc = "done" =>
    \A j \in DOMAIN RequirementsOf(country) :
      LET t == RequirementsOf(country)[j]
      IN  /\ t[4] \in ModeEnum
          /\ t[5] \in CommodityEnum
          /\ t[6] \in IncotermEnum
          /\ \E i \in Range(INCOTERMS), m \in Range(MODES), co \in Range(COMMODITIES) :
               \E n \in DOMAIN filter_rows(master_dataframe, country, i, m, co) :
                 Binds(filter_rows(master_dataframe, country, i, m, co)[n], country, t)

(* C8: filter_rows applied with the same selection to its own output
   returns that output, row for row. *)
C8_FilterIdempotent ==
  pc = "done" => filter_rows(df_sel, country, incoterm, mode, commodity) = df_sel

(* A selection whose output has rows of every kind: "Any" rows, rows of
   the selected mode and commodity, rows of the country. *)
C8_Witness ==
  /\ pc = "done"
  /\ country = "Tanzania" /\ mode = "Air" /\ commodity = "Batteries (DG)"
  /\ incoterm = "CIF"
  /\ Len(df_sel) = 11
  /\ filter_rows(df_sel, country, incoterm, mode, commodity) = df_sel

(* An argument tuple with a value outside its list. *)
Malformed ==
  \/ country \notin Range(ALL_COUNTRIES)
  \/ incoterm \notin Range(INCOTERMS)
  \/ mode \notin Range(MODES)
  \/ commodity \notin Range(COMMODITIES)

(* C9 as stated: a call with a country outside the canonical list, or a
   mode, commodity or incoterm outside its enumeration, ends with an error. *)
C9_FailFast ==
  (pc = "done" /\ Malformed) => raised

(* C9, amended: filter_rows does not validate its arguments and raises
   nothing.  An unrecognized value matches no row: for an unrecognized
   country the result is empty, and for an unrecognized mode, commodity or
   incoterm the result holds only rows whose field of that dimension is
   "Any" (all such rows of the country that match the other dimensions). *)
C9_NoValidation ==
  pc = "done" =>
    LET M == master_dataframe
        I == {i \in DOMAIN M : Selected(M[i])}
    IN  /\ ~raised
        /\ country \notin Range(ALL_COUNTRIES) => df_sel = <<>>
        /\ mode \notin Range(MODES) =>
             \A j \in DOMAIN df_sel : df_sel[j].Mode = "Any"
        /\ commodity \notin Range(COMMODITIES) =>
             \A j \in DOMAIN df_sel : df_sel[j].Commodity = "Any"
        /\ incoterm \notin Range(INCOTERMS) =>
             \A j \in DOMAIN df_sel : df_sel[j].Incoterms = "Any"
        /\ Malformed => Len(df_sel) = Cardinality(I)

(* A call with an unrecognized mode that returned rows, none of them a
   transport document. *)
C9_Witness ==
  /\ pc = "done"
  /\ country = "Kenya" /\ mode = "Rail" /\ incoterm = "DAP"
  /\ commodity = "General Electronics"
  /\ ~raised
  /\ Len(df_sel) = 8
  /\ \A j \in DOMAIN df_sel : df_sel[j].Document # "Transport Document"

(* A download that yields a font: no exception, an OK response, more than
   MinFontSize bytes. *)
YieldsFont(o) == ~o.exc /\ o.ok /\ o.size >= MinFontSize + 1

(* What a run started by the Generate button does to the font state. *)
FontStep ==
  LET big  == ttf.exists /\ ttf.size >= MinFontSize + 1
      n    == Len(fetch_log')
  IN  /\ ~raised'
      /\ big => (fetch_log' = <<>> /\ ttf' = ttf)
      /\ ~big =>
           /\ n \in {1, 2}
           /\ fetch_log'[1].url = DEJAVU_URL
           /\ n = 2 <=> ~YieldsFont(fetch_log'[1].out)
           /\ n = 2 => fetch_log'[2].url = FALLBACK_URL
           /\ IF YieldsFont(fetch_log'[n].out)
                THEN ttf' = FileOf(fetch_log'[n].out.size)
                ELSE ttf' = IF ttf.exists THEN ttf ELSE FileOf(0)
      /\ (ttf' # ttf /\ ttf'.size = 0) => ~ttf.exists
      /\ pdf_font' = IF ttf'.exists /\ ttf'.size > 0 THEN "DejaVu" ELSE "Helvetica"
      /\ UNCHANGED <<country, incoterm, mode, commodity, df_sel, work_df, edited, status>>

(* C10: whatever the two downloads do (exception, non-OK response, content
   of at most MinFontSize bytes, or a font), ensure_ttf returns without
   raising; the fallback URL is asked only after the primary URL yielded no
   font; the empty marker is written only when no file exists; the PDF
   object registers the Unicode font only when the file is non-empty and
   takes Helvetica otherwise; and the selection, the resolved rows, the grid
   and the status are what they were. *)
C10_FontFallback == [][FontStep]_vars

(* Both downloads failed (an exception, then a non-OK response): the file is
   the empty marker, the PDF font is Helvetica, and the rows and status are
   those of the default selection. *)
C10_Witness ==
  /\ pc = "done"
  /\ ~raised
  /\ Len(fetch_log) = 2
  /\ fetch_log[1].out.exc
  /\ ~fetch_log[2].out.exc /\ ~fetch_log[2].out.ok
  /\ ttf = FileOf(0)
  /\ pdf_font = "Helvetica"
  /\ Len(df_sel) = 9
  /\ status = <<"PENDING", 0, 8>>

(* The mandatory baseline documents that do not depend on the mode,
   src/app.py:63-68. *)
ModeIndependentMandatory ==
  {"Commercial Invoice", "Packing List", "Certificate of Origin (COO)",
   "HS Codes Confirmed", "Product Description & Model/PN",
   "Export Declaration (origin)"}

(* The positions of the "Transport Document" rows of a frame. *)
TransportRows(rows) ==
  {j \in DOMAIN rows : rows[j].Document = "Transport Document"}

(* The selection is one the four select boxes can hold. *)
CanonicalSelection ==
  /\ country \in Range(ALL_COUNTRIES)
  /\ incoterm \in Range(INCOTERMS)
  /\ mode \in Range(MODES)
  /\ commodity \in Range(COMMODITIES)

(* The grid holds no user edit: the editor returns the working view. *)
Unedited == edited = work_df

(* The grid differs from the working view in "Provided?" cells at most: no
   row was added or removed and no "Mandatory" cell was edited. *)
OnlyProvidedEdits ==
  /\ Len(edited) = Len(work_df)
  /\ \A k \in DOMAIN edited : [edited[k] EXCEPT !.Provided = FALSE] = work_df[k]

(* What holds after a run of the script for a canonical selection. *)
AfterSelection ==
  /\ \A k \in DOMAIN work_df : work_df[k].Provided = FALSE
  /\ \A d \in ModeIndependentMandatory :
       \E j \in DOMAIN df_sel : /\ df_sel[j].Document = d
                                /\ df_sel[j].Mandatory = "Yes"
                                /\ df_sel[j].Mode = "Any"
  /\ Cardinality(ModeIndependentMandatory) = 6
  /\ Cardinality(TransportRows(df_sel)) = 1
  /\ \A j \in TransportRows(df_sel) : /\ df_sel[j].Mode = mode
                                      /\ df_sel[j].Mandatory = "Yes"
  /\ Unedited =>
       /\ YesRows(edited) >= 7
       /\ status = <<"PENDING", 0, YesRows(edited)>>
  /\ OnlyProvidedEdits =>
       /\ status # <<"No mandatory docs">>
       /\ status = <<"READY">> =>
            /\ ~Unedited
            /\ YesProvidedRows(edited) = YesRows(edited)
            /\ YesProvidedRows(edited) >= 7

(* A step that makes the status READY while the grid holds "Provided?"
   edits at most is a tick of one checkbox, the selection staying as it is. *)
ReadyOnlyByTick ==
  (/\ status # <<"READY">>
   /\ status' = <<"READY">>
   /\ OnlyProvidedEdits
   /\ OnlyProvidedEdits') =>
    /\ <<country, incoterm, mode, commodity>>' = <<country, incoterm, mode, commodity>>
    /\ UNCHANGED <<df_sel, work_df>>
    /\ \E k \in DOMAIN edited :
         /\ ~edited[k].Provided
         /\ edited[k].Mandatory = "Yes"
         /\ edited' = [edited EXCEPT ![k].Provided = TRUE]

(* A selection change that leaves the grid without an edit leaves the
   status PENDING with no row provided. *)
SelectionChangeFresh ==
  (/\ <<country, incoterm, mode, commodity>>' # <<country, incoterm, mode, commodity>>
   /\ Unedited') =>
    /\ status'[1] = "PENDING"
    /\ status'[2] = 0
    /\ status'[3] = YesRows(work_df')
    /\ status'[3] >= 7

(* C11: after a run of the script for a canonical selection, every row of the
   working view has "Provided?" False; the filtered frame holds the six
   mode-independent mandatory baseline documents and exactly one "Transport
   Document" row, the one of the selected mode; while the grid holds no user
   edit (as right after a selection change made before any edit) the number
   of mandatory rows is at least 7 and the status is PENDING (0/that
   number); while no row is added or removed and no "Mandatory" cell is
   edited the status is never "No mandatory docs"; and the status becomes
   READY only by a tick of a "Provided?" checkbox. *)
C11_FreshSelectionPending ==
  /\ []((pc = "done" /\ CanonicalSelection) => AfterSelection)
  /\ [][ReadyOnlyByTick /\ SelectionChangeFresh]_vars

(* A selection change away from the default country has just left the grid
   as the script builds it: no row provided, PENDING (0/n) with n >= 7. *)
C11_Witness ==
  /\ pc = "done"
  /\ steps = 1
  /\ country # "United Arab Emirates"
  /\ Unedited
  /\ Cardinality(TransportRows(df_sel)) = 1
  /\ status[1] = "PENDING"
  /\ status[2] = 0
  /\ status[3] >= 7

====
